---- MODULE Spec2Model ----
(***************************************************************************)
(* Model of billa_scraper_1.py: the paginated fetcher (scrape_all_pages),  *)
(* the record normalizer (extract_product_data), the diff engine           *)
(* (find_differences), and the run of main over the historical table file  *)
(* and the run log.                                                        *)
(*                                                                         *)
(* Numbers are fixed-point: Num(c) is the number c / 100.                  *)
(***************************************************************************)
EXTENDS Integers, Sequences, FiniteSets, TLC

VARIABLES
    \* scrape_all_pages: parameters and locals
    total_records, page_size, max_retries, records_scraped, current_page,
    total_pages, retries, product_list, fpc,
    \* the value of records_scraped the call was entered with
    start_offset,
    \* the page requests made by the call of scrape_all_pages, as a remote observer
    \* records them: [page, outcome, n], n the number of records answered
    requests,
    \* main: locals of the run in progress
    pc, new_price_history_entries, combined_dataframe, latest_historical_data,
    differences, updated_combined_dataframe,
    \* files
    csv_file, log_file, report,
    \* the calendar day, the number of runs started, how the last run ended
    today, runs, outcome,
    \* what the files held when the run in progress (or the last run) started, and
    \* what the last run before it that got to its end had scraped
    csv_before, log_before, last_scrape,
    \* inputs and result of the functions applied on their own: the view and the
    \* batch of find_differences, the products of extract_product_data
    fn_hist, fn_scraped, fn_products, fn_result,
    \* two runs of main at work on the same table file: the position and the locals
    \* of each, the table file they started from, the rows the runs have appended
    \* (as they are read back), and whether a run loaded the table while the other
    \* stood between its load and its write
    proc, csv_start, appended, overlapped

fetch_vars == <<total_records, page_size, max_retries, records_scraped, current_page,
                total_pages, retries, product_list, fpc, start_offset>>
main_vars == <<pc, new_price_history_entries, combined_dataframe,
               latest_historical_data, differences, updated_combined_dataframe,
               csv_file, log_file, report, today, runs, outcome, csv_before,
               log_before, last_scrape>>
fn_vars == <<fn_hist, fn_scraped, fn_products, fn_result>>
two_vars == <<proc, csv_start, appended, overlapped>>
vars == <<fetch_vars, requests, main_vars, fn_vars, two_vars>>

(***************************************************************************)
(* Bounds of the model.                                                    *)
(***************************************************************************)
\* scrape_all_pages makes no request for a page index above total_pages + MaxOvershoot
MaxOvershoot == 1
\* the server returns at most MaxResp records in one response of a run of main
MaxResp == 1
\* the largest total the server reports to a run of main
MaxTotal == 2
\* the historical table file holds at most MaxInitRows rows before the first run
MaxInitRows == 2
\* calendar days are 1..MaxDay
MaxDay == 2
\* main is run at most MaxRuns times
MaxRuns == 2

(***************************************************************************)
(* Program constants.                                                      *)
(***************************************************************************)
DefaultPageSize == 100
DefaultMaxRetries == 5

Min(a, b) == IF a < b THEN a ELSE b

(***************************************************************************)
(* scrape_all_pages                                                        *)
(***************************************************************************)

\* The records of a response: n records of the page, told apart by position.
PageRecords(page, n) == [i \in 1..n |-> <<page, i>>]

\* The number of records the catalogue holds on a page.
PageLen(page, total, size) ==
    IF total - page * size <= 0 THEN 0 ELSE Min(size, total - page * size)

\* Sizes of the results array the server may answer a page request with.
ResponseSizes(page, total, size) == {0, 1, PageLen(page, total, size), size}

\* Line 70: int(records_scraped / page_size), for an offset that is not negative.
StartPage(offset, size) == offset \div size

\* Line 71.
TotalPages(total, size) == (total + size - 1) \div size

\* Lines 69-71: locals set on entry.
ScrapeEnter(total, offset, size, maxr) ==
    /\ total_records' = total
    /\ page_size' = size
    /\ max_retries' = maxr
    /\ records_scraped' = offset
    /\ start_offset' = offset
    /\ product_list' = <<>>
    /\ current_page' = StartPage(offset, size)
    /\ total_pages' = TotalPages(total, size)
    /\ retries' = 0
    /\ fpc' = "outer"

\* (mutant) the failure count is carried over from one page to the next.
OuterTestKeepsRetries ==
    /\ fpc = "outer"
    /\ fpc' = IF records_scraped < total_records THEN "inner" ELSE "done"
    /\ UNCHANGED <<total_records, page_size, max_retries, records_scraped, current_page,
                   total_pages, product_list, start_offset, retries>>

\* Line 73 (and 78): the outer loop's test.
OuterTest ==
    /\ fpc = "outer"
    /\ IF records_scraped < total_records
          THEN /\ retries' = 0
               /\ fpc' = "inner"
          ELSE /\ fpc' = "done"
               /\ UNCHANGED retries
    /\ UNCHANGED <<total_records, page_size, max_retries, records_scraped, current_page,
                   total_pages, product_list, start_offset>>

\* (mutant) the cursor advances by the page size, not by the records answered.
RequestResultsAddsPageSize(results) ==
    /\ fpc = "inner"
    /\ retries < max_retries
    /\ current_page <= total_pages + MaxOvershoot
    /\ product_list' = product_list \o results
    /\ records_scraped' = records_scraped + page_size
    /\ current_page' = current_page + 1
    /\ fpc' = "check"
    /\ UNCHANGED <<total_records, page_size, max_retries, total_pages, retries, start_offset>>

\* Lines 81-97: a request that succeeds with a 'results' array.
RequestResults(results) ==
    /\ fpc = "inner"
    /\ retries < max_retries
    /\ current_page <= total_pages + MaxOvershoot
    /\ product_list' = product_list \o results
    /\ records_scraped' = records_scraped + Len(results)
    /\ current_page' = current_page + 1
    /\ fpc' = "check"
    /\ UNCHANGED <<total_records, page_size, max_retries, total_pages, retries, start_offset>>

\* Lines 81-85, 95-97: a request that succeeds with no 'results' key.
RequestNoResultsKey ==
    /\ fpc = "inner"
    /\ retries < max_retries
    /\ current_page <= total_pages + MaxOvershoot
    /\ current_page' = current_page + 1
    /\ fpc' = "check"
    /\ UNCHANGED <<total_records, page_size, max_retries, total_pages, retries,
                   product_list, records_scraped, start_offset>>

\* Lines 81-82, 99-102: a request that raises RequestException.
RequestFails ==
    /\ fpc = "inner"
    /\ retries < max_retries
    /\ current_page <= total_pages + MaxOvershoot
    /\ retries' = retries + 1
    /\ UNCHANGED <<total_records, page_size, max_retries, total_pages, product_list,
                   records_scraped, current_page, fpc, start_offset>>

\* Line 79: the retry loop ends because the budget is used up.
RetriesExhausted ==
    /\ fpc = "inner"
    /\ ~(retries < max_retries)
    /\ fpc' = "check"
    /\ UNCHANGED <<total_records, page_size, max_retries, total_pages, product_list,
                   records_scraped, current_page, retries, start_offset>>

\* (mutant) an exhausted budget does not stop the scraping.
RetryCheckGoesOn ==
    /\ fpc = "check"
    /\ fpc' = "outer"
    /\ UNCHANGED <<total_records, page_size, max_retries, total_pages, product_list,
                   records_scraped, current_page, retries, start_offset>>

\* Lines 104-108: stop after an exhausted budget, else loop.
RetryCheck ==
    /\ fpc = "check"
    /\ fpc' = IF retries = max_retries THEN "done" ELSE "outer"
    /\ UNCHANGED <<total_records, page_size, max_retries, total_pages, product_list,
                   records_scraped, current_page, retries, start_offset>>

(***************************************************************************)
(* Cell values.  None and NaN are the two nulls of a data frame; a list is *)
(* held by its str() text.                                                 *)
(***************************************************************************)
None == [t |-> "none", s |-> "", c |-> 0]
NaN == [t |-> "nan", s |-> "", c |-> 0]
Str(s) == [t |-> "str", s |-> s, c |-> 0]
Num(c) == [t |-> "num", s |-> "", c |-> c]
List(s) == [t |-> "list", s |-> s, c |-> 0]

\* pd.isna
IsNA(v) == v.t \in {"none", "nan"}

\* The texts of the model that float() parses, with the number they parse to.
FloatText == ("500" :> 50000) @@ ("500.0" :> 50000) @@ ("600" :> 60000)

\* float(v) of a value that is not None: raises ValueError on other text.
FloatRaises(v) == v.t = "str" /\ v.s \notin DOMAIN FloatText
FloatOf(v) == IF v.t = "str" THEN FloatText[v.s] ELSE v.c

(***************************************************************************)
(* find_differences                                                        *)
(***************************************************************************)
\* Line 176: the columns of the scraped frame other than sku and date.
ColumnsToCompare ==
    {"price_regular_value", "price_regular_promotionText", "price_regular_tags", "amount"}

\* Lines 194-202: a list is compared by its str().
ListToStr(v) == IF v.t = "list" THEN Str(v.s) ELSE v

\* (mutant) the text 'None' is not taken for an absent value.
AbsentToNoneButText(v) == IF IsNA(v) \/ v = Str("") THEN None ELSE v

\* Lines 205-208: None, NaN, '' and 'None' all become None.
AbsentToNone(v) == IF IsNA(v) \/ v \in {Str(""), Str("None")} THEN None ELSE v

ValueCompare(v) == AbsentToNone(ListToStr(v))

\* (mutant) the amounts are compared as they are, not as numbers.
AmountSameText(h, s) == h = s

\* Lines 211-218: TRUE when the amount branch takes 'continue'.
AmountNumericEqual(h, s) ==
    IF h # None /\ FloatRaises(h) THEN FALSE
    ELSE IF s # None /\ FloatRaises(s) THEN FALSE
    ELSE IF h = None \/ s = None THEN h = None /\ s = None
    ELSE FloatOf(h) = FloatOf(s)

\* Lines 189-225: TRUE when the column is entered into sku_differences.
ColumnDiffers(col, hist_value, scrap_value) ==
    LET h == ValueCompare(hist_value)
        s == ValueCompare(scrap_value)
    IN  IF col = "amount" /\ AmountNumericEqual(h, s) THEN FALSE ELSE h # s

\* (mutant) every compared column is entered, differing or not.
SkuDifferencesOfAll(row, scraped_row) ==
    [col \in ColumnsToCompare |->
        [historical |-> row[col], scraped |-> scraped_row[col]]]

\* Lines 187-225: the differences of one sku.
SkuDifferences(row, scraped_row) ==
    [col \in {c \in ColumnsToCompare : ColumnDiffers(c, row[c], scraped_row[c])} |->
        [historical |-> row[col], scraped |-> scraped_row[col]]]

\* Lines 181-186: the positions of the scraped rows of a sku; iloc[0] is the least.
ScrapedPositions(new_scraped_data, sku) ==
    {j \in DOMAIN new_scraped_data : new_scraped_data[j].sku = sku}

SetMin(S) == CHOOSE x \in S : \A y \in S : x <= y

\* Lines 179-228: the loop over the rows of the historical view, from row i on.
RECURSIVE DiffLoop(_, _, _, _)
DiffLoop(latest, new_scraped_data, i, acc) ==
    IF i > Len(latest) THEN acc
    ELSE LET row == latest[i]
             pos == ScrapedPositions(new_scraped_data, row.sku)
         IN  IF pos = {}
                THEN DiffLoop(latest, new_scraped_data, i + 1, acc)
                ELSE LET d == SkuDifferences(row, new_scraped_data[SetMin(pos)])
                     IN  IF DOMAIN d # {}
                            THEN DiffLoop(latest, new_scraped_data, i + 1,
                                          (row.sku :> d) @@ acc)
                            ELSE DiffLoop(latest, new_scraped_data, i + 1, acc)

\* Lines 174-230.
find_differences(latest, new_scraped_data) ==
    DiffLoop(latest, new_scraped_data, 1, <<>>)

(***************************************************************************)
(* Dates.  A date cell is text ('2024-01-01', or '2024-01-01 00:00:00'     *)
(* when time is TRUE) or a Timestamp.                                      *)
(***************************************************************************)
DateText(day, time) == [k |-> "text", day |-> day, time |-> time]
Timestamp(day) == [k |-> "ts", day |-> day, time |-> FALSE]

\* Line 361: pd.to_datetime(..., format='mixed') of one cell.
to_datetime(cell) == Timestamp(cell.day)

(***************************************************************************)
(* extract_product_data                                                    *)
(***************************************************************************)
\* A key a raw product does not have.
Missing == [t |-> "missing", s |-> "", c |-> 0]

\* Lines 131-149: the columns taken from the flattened products, other than sku.
ExtractedColumns ==
    {"price_regular_value", "price_regular_promotionText", "price_regular_tags", "amount"}

\* Line 165: the price columns that are rescaled.
price_columns_to_format ==
    {"price_regular_value", "price_crossed", "price_regular_perStandardizedQuantity",
     "price_regular_promotionValue"}

\* The price columns among the extracted columns.
PriceColumns == ExtractedColumns \cap price_columns_to_format

\* c / 100 rounded to the nearest integer, halves to the even one.
RoundDiv100(c) ==
    LET q == c \div 100
        r == c % 100
    IN  IF r > 50 \/ (r = 50 /\ q % 2 = 1) THEN q + 1 ELSE q

\* Line 168: pd.to_numeric(errors='coerce') of one cell.
to_numeric(v) ==
    IF v.t = "num" THEN v
    ELSE IF v.t = "str" /\ v.s \in DOMAIN FloatText THEN Num(FloatText[v.s])
    ELSE NaN

\* (mutant) a price cell is made a number and left in minor units.
FormatPriceUnscaled(v) == to_numeric(v)

\* Lines 168-169: a price cell, in minor units, becomes currency units.
FormatPrice(v) ==
    LET n == to_numeric(v)
    IN  IF n.t = "num" THEN Num(RoundDiv100(n.c)) ELSE NaN

\* Lines 129, 156-160: the cell of a column that json_normalize did or did not make.
ExtractCell(products, i, col) ==
    IF \A j \in DOMAIN products : products[j][col] = Missing THEN None
    ELSE IF products[i][col] = Missing THEN NaN
    ELSE products[i][col]

\* Lines 151-171 for the given columns, of which price_columns are rescaled: one
\* row per product, in order, stamped with current_date.
ExtractColumns(products, current_date, columns, price_columns) ==
    [i \in DOMAIN products |->
        [col \in columns |->
            IF col \in price_columns
               THEN FormatPrice(ExtractCell(products, i, col))
               ELSE ExtractCell(products, i, col)]
        @@ [sku |-> products[i].sku, date |-> DateText(current_date, FALSE)]]

\* Lines 127-171, for the columns the runs of main are followed by.
extract_product_data(products, current_date) ==
    ExtractColumns(products, current_date, ExtractedColumns, PriceColumns)

(***************************************************************************)
(* The historical table file: pd.read_csv and DataFrame.to_csv.  A frame   *)
(* is [has_columns, rows]; pd.DataFrame() is the frame without columns.    *)
(* Cells keep their type across the file but for what is listed here.      *)
(***************************************************************************)
EmptyFrame == [has_columns |-> FALSE, rows |-> <<>>]
Frame(rows) == [has_columns |-> TRUE, rows |-> rows]

\* to_csv of one cell: a null is written as the empty text, a list as its str().
WriteCell(v) == IF IsNA(v) THEN Str("") ELSE ListToStr(v)

\* to_csv of a date cell: a Timestamp of a datetime column is written as the date, a
\* Timestamp held in an object column (after a concat with text dates) with its time.
WriteDate(cell, object_column) ==
    IF cell.k = "ts" THEN DateText(cell.day, object_column) ELSE cell

\* Line 385.
to_csv(rows, object_column) ==
    [i \in DOMAIN rows |->
        [col \in ExtractedColumns |-> WriteCell(rows[i][col])]
        @@ [sku |-> rows[i].sku, date |-> WriteDate(rows[i].date, object_column)]]

\* read_csv of one cell: the empty text and 'None' are read as NaN.
ReadCell(v) == IF v \in {Str(""), Str("None")} THEN NaN ELSE v

\* Lines 115, 120.
read_csv(rows) ==
    [i \in DOMAIN rows |->
        [col \in ExtractedColumns |-> ReadCell(rows[i][col])]
        @@ [sku |-> rows[i].sku, date |-> rows[i].date]]

(***************************************************************************)
(* Lines 361-363: the latest historical view handed to find_differences.   *)
(***************************************************************************)
Skus == {"A", "B"}
\* The order of sort_values and of groupby on the sku column.
SkuRank == ("A" :> 1) @@ ("B" :> 2)

\* Line 361: the date column becomes Timestamps, in place.
DatesParsed(rows) ==
    [i \in DOMAIN rows |-> [rows[i] EXCEPT !.date = to_datetime(rows[i].date)]]

\* The sort key of line 362: by sku, then by date.
SortsAfter(a, b) ==
    \/ SkuRank[a.sku] > SkuRank[b.sku]
    \/ SkuRank[a.sku] = SkuRank[b.sku] /\ a.date.day > b.date.day

\* A row put into a sorted sequence behind every row that does not sort after it.
InsertSorted(sorted, row) ==
    LET before == {i \in DOMAIN sorted : ~SortsAfter(sorted[i], row)}
        n == Cardinality(before)
    IN  SubSeq(sorted, 1, n) \o <<row>> \o SubSeq(sorted, n + 1, Len(sorted))

\* Line 362: sort_values(by=['sku', 'date']), which keeps the order of equal keys.
RECURSIVE sort_values(_)
sort_values(rows) ==
    IF rows = <<>> THEN <<>>
    ELSE InsertSorted(sort_values(SubSeq(rows, 1, Len(rows) - 1)), rows[Len(rows)])

SetMax(S) == CHOOSE x \in S : \A y \in S : x >= y

\* GroupBy.last of one column: the last cell of the group that is not null.
LastNonNull(group, col) ==
    LET filled == {i \in DOMAIN group : ~IsNA(group[i][col])}
    IN  IF filled = {} THEN NaN ELSE group[SetMax(filled)][col]

\* GroupBy.last of one group.
GroupLast(group, sku) ==
    [col \in ExtractedColumns |-> LastNonNull(group, col)]
    @@ [sku |-> sku, date |-> group[Len(group)].date]

\* The skus of the rows, in ascending order.
RECURSIVE SkusInOrder(_)
SkusInOrder(S) ==
    IF S = {} THEN <<>>
    ELSE LET m == CHOOSE x \in S : \A y \in S : SkuRank[x] <= SkuRank[y]
         IN  <<m>> \o SkusInOrder(S \ {m})

\* Line 363: groupby('sku').last().reset_index().
groupby_last(sorted) ==
    LET keys == SkusInOrder({sorted[i].sku : i \in DOMAIN sorted})
    IN  [g \in DOMAIN keys |->
            GroupLast(SelectSeq(sorted, LAMBDA r : r.sku = keys[g]), keys[g])]

\* Lines 362-363.
LatestHistoricalData(rows) == groupby_last(sort_values(rows))

(***************************************************************************)
(* The remote source and the files of a run of main.                       *)
(***************************************************************************)
SeqsUpTo(S, n) == UNION {[1..k -> S] : k \in 0..n}

Raw(sku, price, text, tags, amount) ==
    [sku |-> sku, price_regular_value |-> price, price_regular_promotionText |-> text,
     price_regular_tags |-> tags, amount |-> amount]

\* The raw products the server may list (prices in minor units).
Catalog ==
    { Raw("A", Num(99900), Missing, Missing, Str("500")),
      Raw("A", Num(104900), Str("SALE"), List("['s']"), Num(50000)),
      Raw("B", Num(99900), Str("None"), Missing, Str("abc")) }

\* The results arrays of the server's responses to a run of main.
MainResponses == SeqsUpTo(Catalog, MaxResp)

\* The rows a table file can hold on a day: rows written by earlier runs.
FileRows(day) ==
    {to_csv(extract_product_data(<<p>>, d), FALSE)[1] : p \in Catalog, d \in 1..day}

NoFile == [exists |-> FALSE, rows |-> <<>>]
File(rows) == [exists |-> TRUE, rows |-> rows]

\* What the remote copy of the table yields when there is no local file.
RemoteTables(day) == SeqsUpTo(FileRows(day), 1)

\* Line 400.
NoDifferencesFound == [sentinel |-> TRUE, found |-> <<>>]
DifferencesFound(d) == [sentinel |-> FALSE, found |-> d]

\* Lines 392-401.
LogEntry(total, products, combined, updated, diffs) ==
    [timestamp |-> <<today, runs>>,
     TotalRecords |-> total,
     RecordsScraped |-> Len(products),
     rows_combined |-> Len(combined),
     rows_updated |-> Len(updated),
     differences_found |-> IF DOMAIN diffs # {} THEN DifferencesFound(diffs)
                           ELSE NoDifferencesFound]

\* Line 259: the order of the report, newest first.
NewerThan(a, b) ==
    \/ a.timestamp[1] > b.timestamp[1]
    \/ a.timestamp[1] = b.timestamp[1] /\ a.timestamp[2] > b.timestamp[2]

InsertNewestFirst(sorted, e) ==
    LET before == {i \in DOMAIN sorted : ~NewerThan(e, sorted[i])}
        n == Cardinality(before)
    IN  SubSeq(sorted, 1, n) \o <<e>> \o SubSeq(sorted, n + 1, Len(sorted))

\* Lines 249-319: the entries of the report, in the order they are rendered.
RECURSIVE generate_html_report(_)
generate_html_report(log_data) ==
    IF log_data = <<>> THEN <<>>
    ELSE InsertNewestFirst(generate_html_report(SubSeq(log_data, 1, Len(log_data) - 1)),
                           log_data[Len(log_data)])

(***************************************************************************)
(* main                                                                    *)
(***************************************************************************)
\* No call of scrape_all_pages is in progress: its locals hold nothing.
NoScrape ==
    /\ total_records = 0
    /\ page_size = DefaultPageSize
    /\ max_retries = DefaultMaxRetries
    /\ records_scraped = 0
    /\ current_page = 0
    /\ total_pages = 0
    /\ retries = 0
    /\ product_list = <<>>
    /\ fpc = "idle"
    /\ start_offset = 0

\* No run of main is in progress: its locals hold nothing.
NoRun ==
    /\ new_price_history_entries = <<>>
    /\ combined_dataframe = EmptyFrame
    /\ latest_historical_data = <<>>
    /\ differences = <<>>
    /\ updated_combined_dataframe = EmptyFrame

\* No two runs are followed side by side.
NoProcs ==
    /\ proc = <<>>
    /\ csv_start = [exists |-> FALSE, rows |-> <<>>]
    /\ appended = <<>>
    /\ overlapped = FALSE

\* main returns (or raises): the locals of the run and of its scrape are gone.
EndRun ==
    /\ total_records' = 0
    /\ page_size' = DefaultPageSize
    /\ max_retries' = DefaultMaxRetries
    /\ records_scraped' = 0
    /\ current_page' = 0
    /\ total_pages' = 0
    /\ retries' = 0
    /\ product_list' = <<>>
    /\ fpc' = "idle"
    /\ start_offset' = 0
    /\ new_price_history_entries' = <<>>
    /\ combined_dataframe' = EmptyFrame
    /\ latest_historical_data' = <<>>
    /\ differences' = <<>>
    /\ updated_combined_dataframe' = EmptyFrame

\* main is entered: the files are as the run finds them.
StartRun ==
    /\ runs' = runs + 1
    /\ csv_before' = csv_file
    /\ log_before' = log_file

\* (mutant) the run whose initial request failed leaves an entry in the run log.
InitialFetchFailsLogged ==
    /\ pc = "idle"
    /\ runs < MaxRuns
    /\ StartRun
    /\ pc' = "idle"
    /\ outcome' = "aborted"
    /\ log_file' = Append(log_file, LogEntry(0, <<>>, <<>>, <<>>, <<>>))
    /\ UNCHANGED <<fetch_vars, requests, new_price_history_entries, combined_dataframe,
                   latest_historical_data, differences, updated_combined_dataframe,
                   csv_file, report, today, last_scrape, fn_vars, two_vars>>

\* Lines 333-338: the initial request fails (or yields nothing) and main returns.
InitialFetchFails ==
    /\ pc = "idle"
    /\ runs < MaxRuns
    /\ StartRun
    /\ pc' = "idle"
    /\ outcome' = "aborted"
    /\ UNCHANGED <<fetch_vars, requests, new_price_history_entries, combined_dataframe,
                   latest_historical_data, differences, updated_combined_dataframe,
                   csv_file, log_file, report, today, last_scrape, fn_vars, two_vars>>

\* Lines 333-345: the initial request yields the total and scrape_all_pages is called.
InitialFetchOk(total) ==
    /\ pc = "idle"
    /\ runs < MaxRuns
    /\ StartRun
    /\ ScrapeEnter(total, 0, DefaultPageSize, DefaultMaxRetries)
    /\ pc' = "scrape"
    /\ outcome' = "running"
    /\ UNCHANGED <<requests, new_price_history_entries, combined_dataframe,
                   latest_historical_data, differences, updated_combined_dataframe,
                   csv_file, log_file, report, today, last_scrape, fn_vars, two_vars>>

\* (mutant) the remote copy of the table is loaded though there is a local file.
load_combined_dataframe_remote(frame) ==
    \/ \E remote \in RemoteTables(today) : frame = Frame(read_csv(remote))
    \/ frame = EmptyFrame

\* Lines 111-124.
load_combined_dataframe(frame) ==
    IF csv_file.exists THEN frame = Frame(read_csv(csv_file.rows))
    ELSE \/ \E remote \in RemoteTables(today) : frame = Frame(read_csv(remote))
         \/ frame = EmptyFrame

\* Lines 348-357: the products are extracted and the table is loaded.
ExtractAndLoad ==
    /\ pc = "scrape"
    /\ fpc = "done"
    /\ new_price_history_entries' = extract_product_data(product_list, today)
    /\ load_combined_dataframe(combined_dataframe')
    /\ pc' = "loaded"
    /\ UNCHANGED <<fetch_vars, requests, latest_historical_data, differences,
                   updated_combined_dataframe, csv_file, log_file, report, today, runs,
                   outcome, csv_before, log_before, last_scrape, fn_vars, two_vars>>

\* Line 361 on a frame without columns: KeyError ends the run.
DiffRaises ==
    /\ pc = "loaded"
    /\ ~combined_dataframe.has_columns
    /\ pc' = "idle"
    /\ outcome' = "raised"
    /\ EndRun
    /\ UNCHANGED <<requests, csv_file, log_file, report, today, runs, csv_before,
                   log_before, last_scrape, fn_vars, two_vars>>

\* (mutant) every scraped row is appended once some sku has differences.
RecordsToAppendAll(entries, diffs) == entries

\* Line 380: the scraped rows whose sku has differences.
RecordsToAppend(entries, diffs) == SelectSeq(entries, LAMBDA r : r.sku \in DOMAIN diffs)

\* (mutant) the scraped rows take the place of the table.
UpdatedCombinedOverwrites(combined, entries, diffs) ==
    IF DOMAIN diffs # {} THEN RecordsToAppend(entries, diffs) ELSE combined

\* Lines 378-383: the table with the rows of the changed skus behind it.
UpdatedCombined(combined, entries, diffs) ==
    IF DOMAIN diffs # {} THEN combined \o RecordsToAppend(entries, diffs) ELSE combined

\* Lines 359-388: the diff against the latest view, and the table written back.
DiffAndPersist ==
    /\ pc = "loaded"
    /\ combined_dataframe.has_columns
    /\ LET combined == DatesParsed(combined_dataframe.rows)
           latest == LatestHistoricalData(combined)
           diffs == find_differences(latest, new_price_history_entries)
           updated == UpdatedCombined(combined, new_price_history_entries, diffs)
       IN  /\ combined_dataframe' = Frame(combined)
           /\ latest_historical_data' = latest
           /\ differences' = diffs
           /\ updated_combined_dataframe' = Frame(updated)
           /\ csv_file' = File(to_csv(updated, DOMAIN diffs # {}))
    /\ pc' = "persisted"
    /\ UNCHANGED <<fetch_vars, requests, new_price_history_entries, log_file, report, today,
                   runs, outcome, csv_before, log_before, last_scrape, fn_vars, two_vars>>

\* (mutant) a run without differences leaves no entry in the run log.
update_log_file_if_changed(log_data, log_entry) ==
    IF log_entry.differences_found.sentinel THEN log_data ELSE Append(log_data, log_entry)

\* Lines 233-246.
update_log_file(log_data, log_entry) == Append(log_data, log_entry)

\* Lines 390-404, 233-246: the run log gets its entry and the report is rebuilt.
WriteLog ==
    /\ pc = "persisted"
    /\ log_file' = update_log_file(log_file,
                                   LogEntry(total_records, product_list,
                                            combined_dataframe.rows,
                                            updated_combined_dataframe.rows, differences))
    /\ report' = generate_html_report(log_file')
    /\ pc' = "idle"
    /\ outcome' = "completed"
    /\ last_scrape' = [any |-> TRUE, products |-> product_list]
    /\ EndRun
    /\ UNCHANGED <<requests, csv_file, today, runs, csv_before, log_before, fn_vars, two_vars>>

\* A day passes between two runs.
NextDay ==
    /\ pc = "idle"
    /\ today < MaxDay
    /\ today' = today + 1
    /\ UNCHANGED <<fetch_vars, requests, pc, new_price_history_entries, combined_dataframe,
                   latest_historical_data, differences, updated_combined_dataframe,
                   csv_file, log_file, report, runs, outcome, csv_before, log_before,
                   last_scrape, fn_vars, two_vars>>

\* The steps of scrape_all_pages within a run of main.
ScrapeStep ==
    /\ pc = "scrape"
    /\ \/ OuterTest
       \/ \E results \in MainResponses : RequestResults(results)
       \/ RequestNoResultsKey
       \/ RequestFails
       \/ RetriesExhausted
       \/ RetryCheck
    /\ UNCHANGED <<requests, main_vars, fn_vars, two_vars>>

Init ==
    /\ today \in 1..MaxDay
    /\ csv_file \in {NoFile} \cup {File(t) : t \in SeqsUpTo(FileRows(today), MaxInitRows)}
    /\ log_file = <<>>
    /\ report = <<>>
    /\ runs = 0
    /\ outcome = "none"
    /\ pc = "idle"
    /\ csv_before = csv_file
    /\ log_before = <<>>
    /\ last_scrape = [any |-> FALSE, products |-> <<>>]
    /\ NoRun
    /\ NoProcs
    /\ NoScrape
    /\ requests = <<>>
    /\ fn_hist = <<>>
    /\ fn_scraped = <<>>
    /\ fn_products = <<>>
    /\ fn_result = <<>>

Next ==
    \/ InitialFetchFails
    \/ \E total \in 0..MaxTotal : InitialFetchOk(total)
    \/ ScrapeStep
    \/ ExtractAndLoad
    \/ DiffRaises
    \/ DiffAndPersist
    \/ WriteLog
    \/ NextDay

Spec == Init /\ [][Next]_vars

(***************************************************************************)
(* scrape_all_pages on its own: calls with small totals and page sizes,    *)
(* and the call for 250 records in pages of 100.                           *)
(***************************************************************************)
MaxFetchTotal == 4
MaxFetchOffset == 3
MaxFetchRetries == 2
SmallPageSize == 2

FetchCalls ==
    [total : 0..MaxFetchTotal, offset : 0..MaxFetchOffset, size : {SmallPageSize},
     maxr : 0..MaxFetchRetries]
    \cup [total : {250}, offset : {0, 150}, size : {DefaultPageSize}, maxr : {1}]

FetchInit ==
    /\ \E call \in FetchCalls :
        /\ total_records = call.total
        /\ page_size = call.size
        /\ max_retries = call.maxr
        /\ records_scraped = call.offset
        /\ start_offset = call.offset
        /\ current_page = StartPage(call.offset, call.size)
        /\ total_pages = TotalPages(call.total, call.size)
    /\ product_list = <<>>
    /\ retries = 0
    /\ fpc = "outer"
    /\ requests = <<>>
    /\ pc = "scrape"
    /\ NoRun
    /\ NoProcs
    /\ today = 1
    /\ csv_file = NoFile
    /\ log_file = <<>>
    /\ report = <<>>
    /\ runs = 0
    /\ outcome = "none"
    /\ csv_before = NoFile
    /\ log_before = <<>>
    /\ last_scrape = [any |-> FALSE, products |-> <<>>]
    /\ fn_hist = <<>>
    /\ fn_scraped = <<>>
    /\ fn_products = <<>>
    /\ fn_result = <<>>

Observed(outcome_, n) ==
    requests' = Append(requests, [page |-> current_page, outcome |-> outcome_, n |-> n])

FetchNext ==
    /\ \/ OuterTest /\ UNCHANGED requests
       \/ \E n \in ResponseSizes(current_page, total_records, page_size) :
            RequestResults(PageRecords(current_page, n)) /\ Observed("results", n)
       \/ RequestNoResultsKey /\ Observed("nokey", 0)
       \/ RequestFails /\ Observed("fail", 0)
       \/ RetriesExhausted /\ UNCHANGED requests
       \/ RetryCheck /\ UNCHANGED requests
    /\ UNCHANGED <<main_vars, fn_vars, two_vars>>

SpecFetch == FetchInit /\ [][FetchNext]_vars

(***************************************************************************)
(* Properties of scrape_all_pages (SpecFetch).                             *)
(***************************************************************************)
\* The records answered by the requests of a log, in the order of the requests.
RECURSIVE RecordsAnswered(_)
RecordsAnswered(log) ==
    IF log = <<>> THEN <<>>
    ELSE RecordsAnswered(SubSeq(log, 1, Len(log) - 1))
         \o PageRecords(log[Len(log)].page, log[Len(log)].n)

RECURSIVE SumAnswered(_)
SumAnswered(log) ==
    IF log = <<>> THEN 0
    ELSE SumAnswered(SubSeq(log, 1, Len(log) - 1)) + log[Len(log)].n

Succeeded(log) == SelectSeq(log, LAMBDA q : q.outcome # "fail")

\* C4: the loop has ended once current_page exceeds the total number of pages: no
\* request is about to be made for a page index above total_pages.
C4_LoopEndsPastTotalPages == fpc = "inner" => current_page <= total_pages

\* max_retries consecutive requests, from the i-th on, failed for one page.
ExhaustedFrom(i) ==
    /\ max_retries >= 1
    /\ i + max_retries - 1 <= Len(requests)
    /\ \A j \in i..(i + max_retries - 1) :
          requests[j].outcome = "fail" /\ requests[j].page = requests[i].page

\* C5: once the request for a page k has failed max_retries times in a row, no
\* further request is made, and what the call holds and returns is exactly the
\* records of the pages that succeeded before, which are the pages from the
\* first one up to k - 1, each once and in order.
C5_PartialFetchOnExhaustedRetries ==
    \A i \in DOMAIN requests :
        ExhaustedFrom(i) =>
            LET before == Succeeded(SubSeq(requests, 1, i - 1))
                k == requests[i].page
            IN  /\ Len(requests) = i + max_retries - 1
                /\ fpc \in {"inner", "check", "done"}
                /\ product_list = RecordsAnswered(before)
                /\ Len(before) = k - StartPage(start_offset, page_size)
                /\ \A j \in DOMAIN before :
                      before[j].page = StartPage(start_offset, page_size) + j - 1

C5_Witness ==
    /\ fpc = "done"
    /\ \E i \in DOMAIN requests : ExhaustedFrom(i) /\ requests[i].page = 1
    /\ StartPage(start_offset, page_size) = 0
    /\ product_list = PageRecords(0, 2)
    /\ max_retries = 2

\* Every request so far succeeded and was answered with the records of its page.
SuccessPath ==
    \A i \in DOMAIN requests :
        /\ requests[i].outcome = "results"
        /\ requests[i].n = PageLen(requests[i].page, total_records, page_size)

\* C6: on the success path the pages requested are floor(r / page_size) and the
\* ones after it, in increasing order and each once; records_scraped is r plus the
\* records answered; a request is made only while records_scraped is below
\* total_records and the call ends once it is not; 250 records in pages of 100
\* from offset 0 take exactly the pages 0, 1, 2.  (A call with max_retries = 0
\* makes no request at all, so it has no success path.)
C6_PageSequenceOnSuccess ==
    (SuccessPath /\ max_retries >= 1) =>
        /\ \A i \in DOMAIN requests :
              /\ requests[i].page = StartPage(start_offset, page_size) + i - 1
              /\ start_offset + SumAnswered(SubSeq(requests, 1, i - 1)) < total_records
        /\ records_scraped = start_offset + SumAnswered(requests)
        /\ current_page = StartPage(start_offset, page_size) + Len(requests)
        /\ fpc = "done" => records_scraped >= total_records
        /\ records_scraped >= total_records => fpc \in {"check", "outer", "done"}
        /\ (fpc = "done" /\ total_records = 250 /\ page_size = 100 /\ start_offset = 0)
              => /\ Len(requests) = 3
                 /\ \A i \in 1..3 : requests[i].page = i - 1

C6_Witness ==
    /\ fpc = "done"
    /\ SuccessPath
    /\ total_records = 250 /\ page_size = 100 /\ start_offset = 0
    /\ Len(requests) = 3
    /\ Len(product_list) = 250

(***************************************************************************)
(* find_differences on its own: a latest historical view and a scraped     *)
(* batch drawn from bounded sets of rows.                                  *)
(***************************************************************************)
\* The cell values the rows are made of.
CellValues ==
    {None, NaN, Str(""), Str("None"), Str("abc"), Str("500"), Num(50000), Num(60000),
     Str("['s']"), List("['s']")}

Row(sku, date, price, text, tags, amount) ==
    [sku |-> sku, date |-> date, price_regular_value |-> price,
     price_regular_promotionText |-> text, price_regular_tags |-> tags, amount |-> amount]

BaseRow(sku, date) == Row(sku, date, Num(999), None, NaN, Str("500"))

\* Rows that differ from the base row in one column, by any cell value.
OneColumnRows(sku, date) ==
    {[BaseRow(sku, date) EXCEPT ![col] = v] : col \in ColumnsToCompare, v \in CellValues}

\* Rows that take one of two values in each column.
TwoValueRows(sku, date) ==
    {Row(sku, date, price, text, tags, amount) :
        price \in {Num(999), Num(1049)}, text \in {None, Str("abc")},
        tags \in {NaN, List("['s']")}, amount \in {Str("500"), Str("abc")}}

DiffRows(sku, date) == OneColumnRows(sku, date) \cup TwoValueRows(sku, date)

\* Rows of several skus, told apart by one column.
FewRows(date) ==
    {[BaseRow(sku, date) EXCEPT !.price_regular_promotionText = text] :
        sku \in Skus, text \in {None, Str("abc")}}

\* The views (one row per sku, in sku order) and the batches they are compared with.
DiffInputs ==
    {<< <<h>>, <<s>> >> : h \in DiffRows("A", Timestamp(1)),
                           s \in DiffRows("A", DateText(2, FALSE))}
    \cup {<<h, s>> : h \in {v \in SeqsUpTo(FewRows(Timestamp(1)), 2) :
                              \A i, j \in DOMAIN v :
                                  i < j => SkuRank[v[i].sku] < SkuRank[v[j].sku]},
                     s \in SeqsUpTo(FewRows(DateText(2, FALSE)), 2)}

DiffInit ==
    /\ \E input \in DiffInputs : fn_hist = input[1] /\ fn_scraped = input[2]
    /\ fn_products = <<>>
    /\ fn_result = [done |-> FALSE, differences |-> <<>>]
    /\ NoScrape
    /\ NoRun
    /\ NoProcs
    /\ requests = <<>>
    /\ pc = "idle"
    /\ today = 1
    /\ csv_file = NoFile
    /\ log_file = <<>>
    /\ report = <<>>
    /\ runs = 0
    /\ outcome = "none"
    /\ csv_before = NoFile
    /\ log_before = <<>>
    /\ last_scrape = [any |-> FALSE, products |-> <<>>]

ApplyFindDifferences ==
    /\ ~fn_result.done
    /\ fn_result' = [done |-> TRUE, differences |-> find_differences(fn_hist, fn_scraped)]
    /\ UNCHANGED <<fetch_vars, requests, main_vars, fn_hist, fn_scraped, fn_products,
                   two_vars>>

SpecDiff == DiffInit /\ [][ApplyFindDifferences]_vars

(***************************************************************************)
(* Properties of find_differences (SpecDiff).  The value-equivalence rule  *)
(* is written here as the specification words it.                          *)
(***************************************************************************)
AbsentForms == {None, NaN, Str(""), Str("None")}

\* The canonical text form a list-like value is compared by.
Canonical(v) == IF v.t = "list" THEN Str(v.s) ELSE v

ParsesAsNumber(v) ==
    /\ v \notin AbsentForms
    /\ v.t = "num" \/ (v.t = "str" /\ v.s \in {"500", "500.0", "600"})

NumberOf(v) ==
    IF v.t = "num" THEN v.c ELSE IF v.s = "600" THEN 60000 ELSE 50000

GenericEquivalent(h, s) ==
    \/ h \in AbsentForms /\ s \in AbsentForms
    \/ h \notin AbsentForms /\ s \notin AbsentForms /\ Canonical(h) = Canonical(s)

Equivalent(col, h, s) ==
    \/ col = "amount" /\ ParsesAsNumber(h) /\ ParsesAsNumber(s) /\ NumberOf(h) = NumberOf(s)
    \/ GenericEquivalent(h, s)

HistSkus == {fn_hist[i].sku : i \in DOMAIN fn_hist}
ScrapedSkus == {fn_scraped[i].sku : i \in DOMAIN fn_scraped}
HistRow(sku) == fn_hist[CHOOSE i \in DOMAIN fn_hist : fn_hist[i].sku = sku]
ScrapedRow(sku) ==
    fn_scraped[CHOOSE i \in DOMAIN fn_scraped :
                  /\ fn_scraped[i].sku = sku
                  /\ \A j \in 1..(i - 1) : fn_scraped[j].sku # sku]
FailingColumns(sku) ==
    {col \in ColumnsToCompare : ~Equivalent(col, HistRow(sku)[col], ScrapedRow(sku)[col])}

\* C7: a sku is a key of the ChangeSet exactly when it is in the view and in the
\* batch and some compared column fails the equivalence rule; a key maps to the
\* failing columns and to no others, each with the two values, and never to an
\* empty map.
C7_ChangeSetMembership ==
    fn_result.done =>
        LET d == fn_result.differences
        IN  /\ DOMAIN d \subseteq Skus
            /\ \A sku \in Skus :
                  sku \in DOMAIN d <=>
                      /\ sku \in HistSkus
                      /\ sku \in ScrapedSkus
                      /\ FailingColumns(sku) # {}
            /\ \A sku \in DOMAIN d :
                  /\ DOMAIN d[sku] # {}
                  /\ DOMAIN d[sku] = FailingColumns(sku)
                  /\ \A col \in DOMAIN d[sku] :
                        d[sku][col] = [historical |-> HistRow(sku)[col],
                                       scraped |-> ScrapedRow(sku)[col]]

\* A changed sku next to an unchanged one and to one that is only in the view.
C7_Witness ==
    /\ fn_result.done
    /\ DOMAIN fn_result.differences = {"A"}
    /\ HistSkus = {"A", "B"}
    /\ Len(fn_scraped) = 2
    /\ ScrapedSkus = {"A"}

Reported(sku, col) ==
    sku \in DOMAIN fn_result.differences /\ col \in DOMAIN fn_result.differences[sku]

\* C8: in a column other than amount, null, '' and 'None' on the one side against
\* null, '' or 'None' on the other is no difference, and an absent value against a
\* present one is a difference.
C8_AbsenceEquivalence ==
    fn_result.done =>
        \A sku \in HistSkus \cap ScrapedSkus : \A col \in ColumnsToCompare \ {"amount"} :
            LET h == HistRow(sku)[col]
                s == ScrapedRow(sku)[col]
                absent == {None, Str(""), Str("None")}
            IN  /\ (h \in absent /\ s \in absent) => ~Reported(sku, col)
                /\ ((h \in absent) # (s \in absent) /\ NaN \notin {h, s})
                      => Reported(sku, col)

C8_Witness ==
    /\ fn_result.done
    /\ Len(fn_hist) = 1 /\ Len(fn_scraped) = 1
    /\ fn_hist[1].price_regular_promotionText = Str("None")
    /\ fn_scraped[1].price_regular_promotionText = Str("")
    /\ fn_result.differences = <<>>

\* C9: amounts that both parse as numbers and are numerically equal are no
\* difference; when a side does not parse as a number the amounts are a
\* difference exactly when the generic rule tells them apart.
C9_AmountNumericOverride ==
    fn_result.done =>
        \A sku \in HistSkus \cap ScrapedSkus :
            LET h == HistRow(sku).amount
                s == ScrapedRow(sku).amount
            IN  /\ (ParsesAsNumber(h) /\ ParsesAsNumber(s) /\ NumberOf(h) = NumberOf(s))
                      => ~Reported(sku, "amount")
                /\ (~ParsesAsNumber(h) \/ ~ParsesAsNumber(s))
                      => (Reported(sku, "amount") <=> ~GenericEquivalent(h, s))

\* Historical "500" against scraped 500.0.
C9_Witness ==
    /\ fn_result.done
    /\ Len(fn_hist) = 1 /\ Len(fn_scraped) = 1
    /\ fn_hist[1].amount = Str("500")
    /\ fn_scraped[1].amount = Num(50000)
    /\ fn_result.differences = <<>>

(***************************************************************************)
(* Properties of the run of main (Spec).                                   *)
(***************************************************************************)
IsPrefix(a, b) == Len(a) <= Len(b) /\ SubSeq(b, 1, Len(a)) = a

\* The rows of a table file as a run reads them: cells parsed, dates as days.
TableOf(file) == DatesParsed(read_csv(file.rows))

\* C1: the rows the table file held when a run started are, with the values they
\* are read with and in their order, the first rows of the table file at every
\* point of the run and after it: a run only adds rows behind them.
C1_AppendOnly == IsPrefix(TableOf(csv_before), TableOf(csv_file))

C1_Witness ==
    /\ pc = "idle"
    /\ outcome = "completed"
    /\ Len(csv_before.rows) = 2
    /\ Len(csv_file.rows) > 2
    /\ runs = 2

\* The latest row of a sku in a table: of the rows with the greatest date, the
\* one appended last.
LatestRow(rows, sku) ==
    LET own == {i \in DOMAIN rows : rows[i].sku = sku}
        newest == {i \in own : \A j \in own : rows[j].date.day <= rows[i].date.day}
    IN  rows[SetMax(newest)]

TableSkus(rows) == {rows[i].sku : i \in DOMAIN rows}

\* C3: the view handed to find_differences has one entry for each sku of the
\* table, and every cell of the entry, null or not, is the cell of the latest row
\* of the sku.
C3_LatestKnownState ==
    pc = "persisted" =>
        /\ Len(latest_historical_data) = Cardinality(TableSkus(combined_dataframe.rows))
        /\ \A i \in DOMAIN latest_historical_data :
              LET entry == latest_historical_data[i]
              IN  /\ entry.sku \in TableSkus(combined_dataframe.rows)
                  /\ \A j \in DOMAIN latest_historical_data : j # i =>
                        latest_historical_data[j].sku # entry.sku
                  /\ entry = LatestRow(combined_dataframe.rows, entry.sku)

\* The scraped rows of a sku all are, column by column, equivalent to a row.
ScrapedAsRow(sku, row) ==
    \A i \in DOMAIN new_price_history_entries :
        new_price_history_entries[i].sku = sku =>
            \A col \in ColumnsToCompare :
                Equivalent(col, row[col], new_price_history_entries[i][col])

\* C2: a sku scraped with values equivalent to those of its latest row gets no
\* entry in the ChangeSet and no new row; and a run that scraped what the run
\* before it scraped finds no difference and adds no row.
C2_IdempotentAppend ==
    pc = "persisted" =>
        /\ \A sku \in TableSkus(combined_dataframe.rows) :
              ScrapedAsRow(sku, LatestRow(combined_dataframe.rows, sku)) =>
                  /\ sku \notin DOMAIN differences
                  /\ \A i \in DOMAIN updated_combined_dataframe.rows :
                        i > Len(combined_dataframe.rows) =>
                            updated_combined_dataframe.rows[i].sku # sku
        /\ (last_scrape.any /\ last_scrape.products = product_list) =>
              /\ DOMAIN differences = {}
              /\ updated_combined_dataframe.rows = combined_dataframe.rows

\* C10 as claimed: every invocation of main has added one entry to the run log.
C10_OneEntryPerInvocation == pc = "idle" => Len(log_file) = runs

\* C10: a run adds at most one entry, at the end of the run log, and changes no
\* earlier entry; a run that gets to its last step adds exactly one, with the
\* ChangeSet or with the no-differences marker; a run that ends before it (the
\* initial request failed, or an exception ended it) adds none.
C10_OneEntryPerCompletedRun ==
    /\ IsPrefix(log_before, log_file)
    /\ pc # "idle" => log_file = log_before
    /\ (pc = "idle" /\ outcome = "completed") =>
          /\ Len(log_file) = Len(log_before) + 1
          /\ log_file[Len(log_file)].timestamp[2] = runs
    /\ (pc = "idle" /\ outcome \in {"aborted", "raised"}) => log_file = log_before

\* A run with differences and then a run without.
C10_Witness ==
    /\ pc = "idle"
    /\ outcome = "completed"
    /\ Len(log_file) = 2
    /\ ~log_file[1].differences_found.sentinel
    /\ log_file[2].differences_found.sentinel

\* C11 as claimed: a run that got past the initial request is not failed by the
\* table it loads, also when the table is available neither locally nor remotely
\* and the empty frame is loaded: it ends with the table persisted and with its
\* entry in the run log.
C11_FirstRunBootstrap ==
    (pc = "idle" /\ runs > 0 /\ outcome # "aborted") =>
        /\ outcome = "completed"
        /\ csv_file.exists
        /\ Len(log_file) = Len(log_before) + 1

\* C12: the step of main whose initial request fails ends the run at once: no call
\* of scrape_all_pages is entered, so no page is requested, and the table file,
\* the run log and the report are left as they were.
C12_FatalInitialFetch ==
    [][(runs' = runs + 1 /\ outcome' = "aborted") =>
          /\ pc' = "idle"
          /\ fpc = "idle" /\ fpc' = "idle"
          /\ product_list' = <<>>
          /\ csv_file' = csv_file
          /\ log_file' = log_file
          /\ report' = report]_vars

\* A run aborted after a run that had written the table, the run log and the report.
C12_Witness ==
    /\ pc = "idle"
    /\ outcome = "aborted"
    /\ runs = 2
    /\ fpc = "idle"
    /\ csv_file.exists
    /\ Len(log_file) = 1
    /\ csv_file = csv_before
    /\ log_file = log_before
    /\ Len(report) = 1

\* C13 as claimed: the rows a run adds to the table are the scraped records of the
\* skus of its ChangeSet, one row for each such sku and stamped with the run date,
\* so the table grows by as many rows as the ChangeSet has skus.
C13_OneRowPerChangedSku ==
    pc = "persisted" =>
        LET before == combined_dataframe.rows
            after == updated_combined_dataframe.rows
            added == SubSeq(after, Len(before) + 1, Len(after))
        IN  /\ IsPrefix(before, after)
            /\ Len(after) = Len(before) + Cardinality(DOMAIN differences)
            /\ \A i \in DOMAIN added :
                  /\ added[i].sku \in DOMAIN differences
                  /\ added[i].date.day = today
                  /\ \E j \in DOMAIN new_price_history_entries :
                        added[i] = new_price_history_entries[j]
            /\ \A i, j \in DOMAIN added : i # j => added[i].sku # added[j].sku

(***************************************************************************)
(* extract_product_data on its own: batches of raw products with the four  *)
(* monetary fields and two others.                                         *)
(***************************************************************************)
\* a batch handed to extract_product_data on its own holds at most MaxProducts products
MaxProducts == 2

\* The columns followed here: the four price columns of line 165 and two others.
OtherColumns == {"amount", "price_regular_promotionText"}
MoneyColumns == price_columns_to_format \cup OtherColumns

\* What a field of a raw product may hold: numbers (whole minor units or not),
\* numeric and other text, a list, JSON null, or no such key.
RawValues ==
    {Num(129900), Num(99900), Num(500), Num(0), Num(-129900), Num(129949), Num(129951),
     Str("500"), Str("abc"), Str(""), List("['s']"), None, Missing}

BaseProduct(sku) ==
    [col \in MoneyColumns |-> IF col = "price_regular_value" THEN Num(129900) ELSE Missing]
    @@ [sku |-> sku]

\* Products that differ from the base product in one field, by any raw value.
OneFieldProducts(sku) ==
    {[BaseProduct(sku) EXCEPT ![col] = v] : col \in MoneyColumns, v \in RawValues}

\* Products told apart by having or not having two of the keys.
FewProducts ==
    {[BaseProduct(sku) EXCEPT !.price_crossed = crossed, !.amount = amount] :
        sku \in Skus, crossed \in {Missing, Num(149900)}, amount \in {Missing, Num(50000)}}

ExtractInputs ==
    {<<p>> : p \in OneFieldProducts("A")} \cup SeqsUpTo(FewProducts, MaxProducts)

ExtractInit ==
    /\ fn_products \in ExtractInputs
    /\ fn_result = [done |-> FALSE, rows |-> <<>>]
    /\ fn_hist = <<>>
    /\ fn_scraped = <<>>
    /\ NoScrape
    /\ NoRun
    /\ NoProcs
    /\ requests = <<>>
    /\ pc = "idle"
    /\ today = 1
    /\ csv_file = NoFile
    /\ log_file = <<>>
    /\ report = <<>>
    /\ runs = 0
    /\ outcome = "none"
    /\ csv_before = NoFile
    /\ log_before = <<>>
    /\ last_scrape = [any |-> FALSE, products |-> <<>>]

ApplyExtractProductData ==
    /\ ~fn_result.done
    /\ fn_result' = [done |-> TRUE,
                     rows |-> ExtractColumns(fn_products, today, MoneyColumns,
                                             price_columns_to_format)]
    /\ UNCHANGED <<fetch_vars, requests, main_vars, fn_hist, fn_scraped, fn_products,
                   two_vars>>

SpecExtract == ExtractInit /\ [][ApplyExtractProductData]_vars

(***************************************************************************)
(* Properties of extract_product_data (SpecExtract).                       *)
(***************************************************************************)
\* C14: each of the four monetary fields that holds a number (or text that parses
\* as one) of v minor units becomes v / 100 rounded to 2 decimals, which for whole
\* minor units is exactly v / 100 (1299 becomes 12.99); one that holds anything
\* else, or is not there, becomes null; the other fields are taken as they are.
C14_MonetaryRescale ==
    fn_result.done =>
        /\ Len(fn_result.rows) = Len(fn_products)
        /\ \A i \in DOMAIN fn_products :
              LET raw == fn_products[i]
                  row == fn_result.rows[i]
              IN  /\ \A col \in price_columns_to_format :
                        IF ParsesAsNumber(raw[col])
                           THEN /\ row[col].t = "num"
                                /\ 100 * row[col].c - NumberOf(raw[col]) \in -50..50
                                /\ NumberOf(raw[col]) % 100 = 0
                                      => 100 * row[col].c = NumberOf(raw[col])
                           ELSE IsNA(row[col])
                  /\ \A col \in OtherColumns :
                        IF raw[col] = Missing THEN IsNA(row[col]) ELSE row[col] = raw[col]

\* 1299 minor units become 12.99, next to a monetary field that holds other text.
C14_Witness ==
    /\ fn_result.done
    /\ Len(fn_products) = 1
    /\ fn_products[1].price_regular_value = Num(129900)
    /\ fn_result.rows[1].price_regular_value = Num(1299)
    /\ fn_products[1].price_regular_promotionValue = Str("abc")
    /\ fn_result.rows[1].price_regular_promotionValue = NaN

(***************************************************************************)
(* More properties of scrape_all_pages (SpecFetch).                        *)
(***************************************************************************)
\* The number of requests of a log that failed for a page.
FailuresOf(log, page) ==
    Cardinality({i \in DOMAIN log : log[i].page = page /\ log[i].outcome = "fail"})

\* C15: the request after a failed one is for the same page; the request after one
\* that succeeded is for the next page, and the first is for the start page, so no
\* page is requested before the one below it has succeeded; no page is requested
\* more than max_retries times; and the failure count the retry loop goes by is
\* the number of failures of the page in hand alone.
C15_RetryDiscipline ==
    /\ \A i \in DOMAIN requests :
          /\ i = 1 => requests[i].page = StartPage(start_offset, page_size)
          /\ (i > 1 /\ requests[i - 1].outcome = "fail")
                => requests[i].page = requests[i - 1].page
          /\ (i > 1 /\ requests[i - 1].outcome # "fail")
                => requests[i].page = requests[i - 1].page + 1
          /\ Cardinality({j \in DOMAIN requests : requests[j].page = requests[i].page})
                <= max_retries
    /\ fpc = "inner" => retries = FailuresOf(requests, current_page)
    /\ (fpc = "check" /\ retries = max_retries)
          => retries = FailuresOf(requests, current_page)

\* Two pages that each failed once and then succeeded, with a budget of two.
C15_Witness ==
    /\ max_retries = 2
    /\ Len(requests) = 4
    /\ requests[1].outcome = "fail" /\ requests[2].outcome = "results"
    /\ requests[3].outcome = "fail" /\ requests[4].outcome = "results"
    /\ requests[3].page = requests[1].page + 1
    /\ fpc = "check"
    /\ retries = 1

\* The cursor of scrape_all_pages never goes back.
CursorMonotonic ==
    [][current_page' >= current_page /\ records_scraped' >= records_scraped]_vars

\* C16 as claimed: no step of scrape_all_pages lowers current_page or
\* records_scraped, and none takes current_page above the total number of pages,
\* ceil(total_records / page_size).
C16_CursorInvariant ==
    [][/\ current_page' >= current_page
       /\ records_scraped' >= records_scraped
       /\ current_page' <= (total_records' + page_size' - 1) \div page_size']_vars

(***************************************************************************)
(* More properties of the run of main (Spec).                              *)
(***************************************************************************)
\* The call of scrape_all_pages of the run in progress has ended on an exhausted
\* retry budget.
Truncated == pc # "idle" /\ fpc = "done" /\ retries = max_retries

BatchSkus(entries) == {entries[i].sku : i \in DOMAIN entries}

\* C17 as claimed: a run whose fetch was truncated takes every further step of
\* main: the partial result is normalized and the table loaded, the diff is made
\* and the table persisted, with no ChangeSet entry and no new row for a sku that
\* is not in the partial result, and the run log gets its entry.
C17_TruncatedFetchNotFatal ==
    [][Truncated =>
          /\ pc = "scrape" =>
                /\ pc' = "loaded"
                /\ new_price_history_entries' = extract_product_data(product_list, today)
          /\ pc = "loaded" =>
                /\ pc' = "persisted"
                /\ csv_file'.exists
                /\ DOMAIN differences' \subseteq BatchSkus(new_price_history_entries)
                /\ \A sku \in Skus \ BatchSkus(new_price_history_entries) :
                      SelectSeq(TableOf(csv_file'), LAMBDA r : r.sku = sku)
                         = SelectSeq(combined_dataframe'.rows, LAMBDA r : r.sku = sku)
          /\ pc = "persisted" =>
                /\ pc' = "idle"
                /\ outcome' = "completed"
                /\ Len(log_file') = Len(log_file) + 1]_vars

\* C19: a run adds no sku to the historical table.  The keys of the ChangeSet are
\* skus of the table the run loaded that are in the scraped batch too, and the
\* table it persists has rows of no other sku than the table it loaded; the table
\* file has rows of no other sku than it had when the run started, and a table
\* file without rows is still without rows after the run; a run that found no
\* table file and did not get to persisting leaves none.
C19_SkuSetNeverGrows ==
    /\ pc = "persisted" =>
          /\ DOMAIN differences \subseteq
                TableSkus(combined_dataframe.rows) \cap BatchSkus(new_price_history_entries)
          /\ TableSkus(updated_combined_dataframe.rows)
                \subseteq TableSkus(combined_dataframe.rows)
          /\ TableSkus(csv_file.rows) \subseteq TableSkus(combined_dataframe.rows)
    /\ csv_before.exists =>
          /\ csv_file.exists
          /\ TableSkus(csv_file.rows) \subseteq TableSkus(csv_before.rows)
          /\ csv_before.rows = <<>> => csv_file.rows = <<>>
    /\ (/\ ~csv_before.exists
        /\ pc \in {"scrape", "loaded"} \/ outcome \in {"aborted", "raised"})
          => csv_file = csv_before

\* The batch holds a sku the table does not have, next to a changed sku of the
\* table: a row is added for the one and none for the other.
C19_Witness ==
    /\ pc = "persisted"
    /\ "B" \in BatchSkus(new_price_history_entries)
    /\ TableSkus(combined_dataframe.rows) = {"A"}
    /\ DOMAIN differences = {"A"}
    /\ Len(updated_combined_dataframe.rows) = Len(combined_dataframe.rows) + 1
    /\ TableSkus(csv_file.rows) = {"A"}

(***************************************************************************)
(* Two runs of main at work on the same table file.  The steps of a run    *)
(* that touch no file are taken together with the file access after them:  *)
(* a run fetches, extracts and loads the table; makes the diff and writes   *)
(* the table; writes the run log.  Nothing in main keeps the steps of one   *)
(* run from falling between the steps of the other.                        *)
(***************************************************************************)
TwoRuns == {1, 2}

NoLocals ==
    [total |-> 0, products |-> <<>>, entries |-> <<>>, combined |-> EmptyFrame,
     updated |-> EmptyFrame, diffs |-> <<>>]

\* The rows of a table as they are read back from the file they were written to
\* behind other rows.
ReadBack(rows) == DatesParsed(read_csv(to_csv(rows, TRUE)))

\* Lines 333-338: the initial request of run p fails and the run returns.
RunAborts(p) ==
    /\ proc[p].pc = "start"
    /\ proc' = [proc EXCEPT ![p] = [pc |-> "done"] @@ NoLocals]
    /\ runs' = runs + 1
    /\ UNCHANGED <<fetch_vars, requests, pc, new_price_history_entries, combined_dataframe,
                   latest_historical_data, differences, updated_combined_dataframe,
                   csv_file, log_file, report, today, outcome, csv_before, log_before,
                   last_scrape, fn_vars, csv_start, appended, overlapped>>

\* Lines 333-357: run p fetches the products, extracts them and loads the table
\* (the table file is there, so the frame loaded has its columns).
RunLoads(p, products) ==
    /\ proc[p].pc = "start"
    /\ \E frame \in {Frame(read_csv(csv_file.rows))} \cup
                    {Frame(read_csv(remote)) : remote \in RemoteTables(today)} \cup
                    {EmptyFrame} :
          /\ load_combined_dataframe(frame)
          /\ frame.has_columns
          /\ proc' = [proc EXCEPT ![p] =
                         [pc |-> "loaded", total |-> Len(products), products |-> products,
                          entries |-> extract_product_data(products, today),
                          combined |-> frame, updated |-> EmptyFrame, diffs |-> <<>>]]
    /\ overlapped' = (overlapped \/ \E q \in TwoRuns \ {p} : proc[q].pc = "loaded")
    /\ runs' = runs + 1
    /\ UNCHANGED <<fetch_vars, requests, pc, new_price_history_entries, combined_dataframe,
                   latest_historical_data, differences, updated_combined_dataframe,
                   csv_file, log_file, report, today, outcome, csv_before, log_before,
                   last_scrape, fn_vars, csv_start, appended>>

\* Lines 359-388: run p makes the diff against the table it loaded and writes the
\* table with its rows behind it.
RunPersists(p) ==
    /\ proc[p].pc = "loaded"
    /\ LET combined == DatesParsed(proc[p].combined.rows)
           latest == LatestHistoricalData(combined)
           diffs == find_differences(latest, proc[p].entries)
           updated == UpdatedCombined(combined, proc[p].entries, diffs)
       IN  /\ proc' = [proc EXCEPT ![p].pc = "persisted",
                                   ![p].combined = Frame(combined),
                                   ![p].updated = Frame(updated),
                                   ![p].diffs = diffs]
           /\ csv_file' = File(to_csv(updated, DOMAIN diffs # {}))
           /\ appended' = appended \o ReadBack(SubSeq(updated, Len(combined) + 1,
                                                      Len(updated)))
    /\ UNCHANGED <<fetch_vars, requests, pc, new_price_history_entries, combined_dataframe,
                   latest_historical_data, differences, updated_combined_dataframe,
                   log_file, report, today, runs, outcome, csv_before, log_before,
                   last_scrape, fn_vars, csv_start, overlapped>>

\* Lines 390-404: run p writes its entry to the run log and rebuilds the report.
RunLogs(p) ==
    /\ proc[p].pc = "persisted"
    /\ log_file' = update_log_file(log_file,
                                   LogEntry(proc[p].total, proc[p].products,
                                            proc[p].combined.rows, proc[p].updated.rows,
                                            proc[p].diffs))
    /\ report' = generate_html_report(log_file')
    /\ proc' = [proc EXCEPT ![p] = [pc |-> "done"] @@ NoLocals]
    /\ UNCHANGED <<fetch_vars, requests, pc, new_price_history_entries, combined_dataframe,
                   latest_historical_data, differences, updated_combined_dataframe,
                   csv_file, today, runs, outcome, csv_before, log_before, last_scrape,
                   fn_vars, csv_start, appended, overlapped>>

TwoRunsInit ==
    /\ today = 1
    /\ csv_file \in {File(t) : t \in SeqsUpTo(FileRows(today), MaxInitRows)}
    /\ csv_start = csv_file
    /\ csv_before = csv_file
    /\ proc = [p \in TwoRuns |-> [pc |-> "start"] @@ NoLocals]
    /\ appended = <<>>
    /\ overlapped = FALSE
    /\ log_file = <<>>
    /\ report = <<>>
    /\ runs = 0
    /\ outcome = "none"
    /\ pc = "idle"
    /\ log_before = <<>>
    /\ last_scrape = [any |-> FALSE, products |-> <<>>]
    /\ NoRun
    /\ NoScrape
    /\ requests = <<>>
    /\ fn_hist = <<>>
    /\ fn_scraped = <<>>
    /\ fn_products = <<>>
    /\ fn_result = <<>>

TwoRunsNext ==
    \E p \in TwoRuns :
        \/ RunAborts(p)
        \/ \E products \in MainResponses : RunLoads(p, products)
        \/ RunPersists(p)
        \/ RunLogs(p)

SpecTwoRuns == TwoRunsInit /\ [][TwoRunsNext]_vars

(***************************************************************************)
(* Properties of two runs on the same table file (SpecTwoRuns).            *)
(***************************************************************************)
\* Every row a run has appended is in the table file, behind the rows the file
\* started with and in the order of the writes.
NoRowLost == TableOf(csv_file) = TableOf(csv_start) \o appended

\* C18: when the runs follow one another (neither loads the table while the
\* other stands between its load and its write) no appended row is ever lost; a
\* lost row takes runs that both loaded the table before either wrote it.
C18_LostUpdateNeedsOverlap == ~overlapped => NoRowLost

\* Both runs loaded the table before either wrote it, both have ended, and a row
\* one of them appended is not in the table file: the later write replaced the
\* earlier one.
C18_Witness ==
    /\ overlapped
    /\ \A p \in TwoRuns : proc[p].pc = "done"
    /\ Len(log_file) = 2
    /\ appended # <<>>
    /\ ~NoRowLost
    /\ Len(TableOf(csv_file)) < Len(TableOf(csv_start)) + Len(appended)

====
